---- MODULE Spec2Model ----
(***************************************************************************)
(* Model of nominatim/tools/database_import.py: create_db,                 *)
(* setup_extensions, install_module, check_module_dir_path and             *)
(* import_osm_data, with the database server, the filesystem, the host's   *)
(* memory statistics and the external programs as the environment.         *)
(***************************************************************************)
EXTENDS Integers, Sequences, FiniteSets, TLC

VARIABLES
    pc,             \* position of the running call ("idle": none running)
    fn,             \* the function called last
    ops,            \* the external operations the running/last call made, in order
    result,         \* outcome of the last call: "none", "ok" or the error raised
    \* ---- database server and create_db / setup_extensions
    dbExists,       \* the target database exists
    extensions,     \* extensions committed in the database
    extPending,     \* extensions created in the open transaction
    createdbOk,     \* environment: createdb succeeds on a fresh target
    serverVersion,  \* conn.server_version_tuple()
    postgisVersion, \* conn.postgis_version_tuple()
    pgRequired,     \* POSTGRESQL_REQUIRED_VERSION
    postgisRequired,\* POSTGIS_REQUIRED_VERSION
    roles,          \* rows of pg_user (usename)
    rouser,         \* argument of create_db
    returncode,     \* proc.returncode of createdb
    serverBefore,   \* server state when the running/last call began
    \* ---- filesystem and install_module / check_module_dir_path
    fs,             \* [moduleDir, src, dest]
    override,       \* the module_dir argument of install_module as given
    module_dir,     \* the module_dir variable of install_module
    returned,       \* value install_module returned
    goodPaths,      \* environment: directories the engine can load a module from
    verified,       \* paths check_module_dir_path has found loadable
    fsBefore,       \* filesystem when the running/last call began
    \* ---- import_osm_data
    options,        \* the caller's options dict
    callerOptions,  \* the options as the caller supplied them
    osm_file,       \* argument of import_osm_data
    drop,           \* argument of import_osm_data
    handed,         \* the options as run_osm2pgsql received them
    importerOk,     \* environment: run_osm2pgsql succeeds
    importedRows,   \* environment: rows the importer leaves in place
    placeRows,      \* rows of table place
    tables,         \* scratch tables in the database
    flatFiles,      \* flatnode files on disk
    mem,            \* psutil.virtual_memory(): [available, cached] in bytes
    fsize           \* os.stat(osm_file).st_size in bytes

vars == <<pc, fn, ops, result,
          dbExists, extensions, extPending, createdbOk, serverVersion,
          postgisVersion, pgRequired, postgisRequired, roles, rouser,
          returncode, serverBefore,
          fs, override, module_dir, returned, goodPaths, verified, fsBefore,
          options, callerOptions, osm_file, drop, handed, importerOk,
          importedRows, placeRows, tables, flatFiles, mem, fsize>>

provVars == <<dbExists, extensions, extPending, createdbOk, serverVersion,
              postgisVersion, pgRequired, postgisRequired, roles, rouser,
              returncode, serverBefore>>
modVars == <<fs, override, module_dir, returned, goodPaths, verified, fsBefore>>
impVars == <<options, callerOptions, osm_file, drop, handed, importerOk,
             importedRows, placeRows, tables, flatFiles>>
hostVars == <<mem, fsize>>

\* Python's None
None == "None"

\* Python truthiness of an optional string/path argument
Truthy(v) == v # None /\ v # ""

(***************************************************************************)
(* Byte counts exceed TLC's integers, and the cache estimate is computed   *)
(* in IEEE-754 doubles: naturals are bit sequences, least significant bit  *)
(* first, without leading zeros (zero is << >>).                           *)
(***************************************************************************)
RECURSIVE NatToBits(_)
NatToBits(n) == IF n = 0 THEN << >> ELSE <<n % 2>> \o NatToBits(n \div 2)

RECURSIVE Norm(_)
Norm(b) == IF b = << >> THEN << >>
           ELSE IF b[Len(b)] = 0 THEN Norm(SubSeq(b, 1, Len(b) - 1)) ELSE b

RECURSIVE AddC(_, _, _)
AddC(a, b, c) ==
    IF a = << >> /\ b = << >>
    THEN (IF c = 1 THEN <<1>> ELSE << >>)
    ELSE LET x == IF a = << >> THEN 0 ELSE Head(a)
             y == IF b = << >> THEN 0 ELSE Head(b)
             s == x + y + c
         IN  <<s % 2>> \o AddC(IF a = << >> THEN a ELSE Tail(a),
                               IF b = << >> THEN b ELSE Tail(b), s \div 2)

Add(a, b) == AddC(a, b, 0)

RECURSIVE Dec(_)
Dec(b) == IF Head(b) = 1 THEN Norm(<<0>> \o Tail(b)) ELSE <<1>> \o Dec(Tail(b))

Shl(b, k) == IF b = << >> THEN << >> ELSE [i \in 1..k |-> 0] \o b

Shr(b, k) == IF Len(b) <= k THEN << >> ELSE SubSeq(b, k + 1, Len(b))

Less(a, b) ==
    IF Len(a) # Len(b) THEN Len(a) < Len(b)
    ELSE \E i \in 1..Len(a) :
            a[i] < b[i] /\ \A j \in (i + 1)..Len(a) : a[j] = b[j]

Leq(a, b) == ~Less(b, a)

MinBits(a, b) == IF Less(b, a) THEN b ELSE a

\* significand precision of a Python float (IEEE-754 binary64)
MantBits == 53

\* round to nearest, ties to even, to MantBits significant bits
Round53(b) ==
    IF Len(b) <= MantBits THEN b
    ELSE LET k == Len(b) - MantBits
             q == SubSeq(b, k + 1, Len(b))
             sticky == \E i \in 1..(k - 1) : b[i] = 1
             up == b[k] = 1 /\ (sticky \/ q[1] = 1)
         IN  Shl(IF up THEN Add(q, <<1>>) ELSE q, k)

\* a float is m * 2^e, m of at most MantBits significant bits
IntToFloat(n) == [m |-> Round53(n), e |-> 0]

\* x * 0.75, correctly rounded (0.75 is exact in binary)
FMul075(x) == [m |-> Round53(Add(x.m, Shl(x.m, 1))), e |-> x.e - 2]

\* min(x, y) of a float x and an int y: Python compares exactly and returns
\* the first argument unless the second is smaller
PyMin(x, y) ==
    IF Less(Shl(y, 0 - x.e), x.m) THEN [kind |-> "int", n |-> y]
    ELSE [kind |-> "float", f |-> x]

\* v / 1024: float / int is exact (a power of two); int / int is the
\* correctly rounded quotient
Div1024(v) ==
    IF v.kind = "int" THEN [m |-> Round53(v.n), e |-> 0 - 10]
    ELSE [m |-> v.f.m, e |-> v.f.e - 10]

FDiv1024(x) == [m |-> x.m, e |-> x.e - 10]

\* int(x) of a non-negative float: truncation
PyInt(x) == Shr(x.m, 0 - x.e)

CacheSizeNoPlusOne(available, cached, st_size) ==
    PyInt(FDiv1024(Div1024(PyMin(FMul075(IntToFloat(Add(available, cached))),
                                 Shl(st_size, 1)))))

\* int(min((mem.available + mem.cached) * 0.75, fsize * 2) / 1024 / 1024) + 1
CacheSize(available, cached, st_size) ==
    Add(PyInt(FDiv1024(Div1024(PyMin(FMul075(IntToFloat(Add(available, cached))),
                                     Shl(st_size, 1))))), <<1>>)


(***************************************************************************)
(* create_db and setup_extensions                                          *)
(***************************************************************************)
MaxMajor == 10
MaxMinor == 5

\* (major, minor) tuples the server, the extension and the requirements take
Versions == {<<ma, mi>> : ma \in 9..MaxMajor, mi \in {0, MaxMinor}}

RoleNames == {"www-data", "nominatim"}

\* UsageError messages
CreationFailed == "Creating new database failed."
PgTooOld == "PostgreSQL server is too old."
MissingRole == "Missing read-only user."
PostgisTooOld == "PostGIS version is too old."

TupleLTMajorOnly(a, b) == a[1] < b[1]

\* Python's a < b on two-element tuples
TupleLT(a, b) == a[1] < b[1] \/ (a[1] = b[1] /\ a[2] < b[2])

ScalarCountAnyUser(name) == Cardinality(roles)

\* cur.scalar('SELECT count(*) FROM pg_user where usename = %s', (rouser, ))
ScalarCountUser(name) == Cardinality({u \in roles : u = name})

CommitDropped(committed, pending) == committed

\* conn.commit(): the open transaction's extensions become durable
Commit(committed, pending) == committed \cup pending

\* what the server holds durably
Server == [db |-> dbExists, ext |-> extensions]

\* line 30-33: run createdb; a non-zero exit raises
create_db(r) ==
    /\ pc = "idle"
    /\ fn' = "create_db"
    /\ rouser' = r
    /\ serverBefore' = Server
    /\ ops' = <<"createdb">>
    /\ LET rc == IF dbExists \/ ~createdbOk THEN 1 ELSE 0
       IN  /\ returncode' = rc
           /\ dbExists' = (dbExists \/ rc = 0)
           /\ IF rc # 0
              THEN result' = CreationFailed /\ pc' = "idle"
              ELSE result' = "none" /\ pc' = "create_db_35"
    /\ UNCHANGED <<extensions, extPending, createdbOk, serverVersion,
                   postgisVersion, pgRequired, postgisRequired, roles>>
    /\ UNCHANGED <<modVars, impVars, hostVars>>

\* line 35-42: connect, read the server version, compare with the minimum
create_db_35 ==
    /\ pc = "create_db_35"
    /\ ops' = ops \o <<"connect", "server_version_tuple">>
    /\ IF TupleLT(serverVersion, pgRequired)
       THEN result' = PgTooOld /\ pc' = "idle"
       ELSE result' = result /\ pc' = "create_db_44"
    /\ UNCHANGED <<fn, provVars, modVars, impVars, hostVars>>

\* line 44-51: with a rouser, count the users of that name
create_db_44 ==
    /\ pc = "create_db_44"
    /\ IF rouser # None
       THEN /\ ops' = Append(ops, "pg_user")
            /\ result' = IF ScalarCountUser(rouser) = 0 THEN MissingRole ELSE "ok"
       ELSE /\ ops' = ops
            /\ result' = "ok"
    /\ pc' = "idle"
    /\ UNCHANGED <<fn, provVars, modVars, impVars, hostVars>>

\* setup_extensions(conn) is called on a connection to the database
setup_extensions ==
    /\ pc = "idle"
    /\ dbExists
    /\ fn' = "setup_extensions"
    /\ serverBefore' = Server
    /\ ops' = << >>
    /\ result' = "none"
    /\ pc' = "setup_extensions_60"
    /\ UNCHANGED <<dbExists, extensions, extPending, createdbOk, serverVersion,
                   postgisVersion, pgRequired, postgisRequired, roles, rouser,
                   returncode>>
    /\ UNCHANGED <<modVars, impVars, hostVars>>

\* line 60: CREATE EXTENSION IF NOT EXISTS hstore
setup_extensions_60 ==
    /\ pc = "setup_extensions_60"
    /\ extPending' = extPending \cup ({"hstore"} \ extensions)
    /\ ops' = Append(ops, "create_extension_hstore")
    /\ pc' = "setup_extensions_61"
    /\ UNCHANGED <<fn, result, dbExists, extensions, createdbOk, serverVersion,
                   postgisVersion, pgRequired, postgisRequired, roles, rouser,
                   returncode, serverBefore>>
    /\ UNCHANGED <<modVars, impVars, hostVars>>

\* line 61: CREATE EXTENSION IF NOT EXISTS postgis
setup_extensions_61 ==
    /\ pc = "setup_extensions_61"
    /\ extPending' = extPending \cup ({"postgis"} \ extensions)
    /\ ops' = Append(ops, "create_extension_postgis")
    /\ pc' = "setup_extensions_62"
    /\ UNCHANGED <<fn, result, dbExists, extensions, createdbOk, serverVersion,
                   postgisVersion, pgRequired, postgisRequired, roles, rouser,
                   returncode, serverBefore>>
    /\ UNCHANGED <<modVars, impVars, hostVars>>

\* line 62: conn.commit()
setup_extensions_62 ==
    /\ pc = "setup_extensions_62"
    /\ extensions' = Commit(extensions, extPending)
    /\ extPending' = {}
    /\ ops' = Append(ops, "commit")
    /\ pc' = "setup_extensions_64"
    /\ UNCHANGED <<fn, result, dbExists, createdbOk, serverVersion,
                   postgisVersion, pgRequired, postgisRequired, roles, rouser,
                   returncode, serverBefore>>
    /\ UNCHANGED <<modVars, impVars, hostVars>>

\* line 64-70: read the PostGIS version, compare with the minimum
setup_extensions_64 ==
    /\ pc = "setup_extensions_64"
    /\ ops' = Append(ops, "postgis_version_tuple")
    /\ result' = IF TupleLT(postgisVersion, postgisRequired)
                 THEN PostgisTooOld ELSE "ok"
    /\ pc' = "idle"
    /\ UNCHANGED <<fn, provVars, modVars, impVars, hostVars>>


(***************************************************************************)
(* install_module and check_module_dir_path                                *)
(***************************************************************************)
\* 0o755
ModeExec == 493

FileModes == {420, ModeExec}

NoFile == [content |-> "none", mode |-> 0]

\* project_dir / 'module'
ProjectModule == "project/module"

CustomPath == "/custom/module"

\* fs.moduleDir: project_dir/module is "absent", is the "same" directory as
\* src_dir, or is some "other" directory.  fs.src is src_dir/nominatim.so and
\* fs.dest the nominatim.so of an "other" project_dir/module.
Exists(f) == f.moduleDir # "absent"

SameFile(f) == f.moduleDir = "same"

\* project_dir/module/nominatim.so
DestFile(f) == IF f.moduleDir = "same" THEN f.src
               ELSE IF f.moduleDir = "absent" THEN NoFile ELSE f.dest

NeedsCopyAlways(f) == TRUE

\* line 85: not module_dir.exists() or not src_dir.samefile(module_dir)
NeedsCopy(f) == ~Exists(f) \/ ~SameFile(f)

\* the engine can load the module from path
Loadable(path) ==
    path \in goodPaths /\ (path = ProjectModule => DestFile(fs) # NoFile)

install_module(od) ==
    /\ pc = "idle"
    /\ fn' = "install_module"
    /\ override' = od
    /\ module_dir' = od
    /\ fsBefore' = fs
    /\ returned' = None
    /\ ops' = << >>
    /\ result' = "none"
    /\ pc' = "install_module_82"
    /\ UNCHANGED <<fs, goodPaths, verified>>
    /\ UNCHANGED <<provVars, impVars, hostVars>>

\* line 82-83, 97-98
install_module_82 ==
    /\ pc = "install_module_82"
    /\ IF ~Truthy(module_dir)
       THEN module_dir' = ProjectModule /\ pc' = "install_module_85"
       ELSE module_dir' = module_dir /\ pc' = "install_module_100"
    /\ UNCHANGED <<fn, ops, result, fs, override, returned, goodPaths, verified,
                   fsBefore>>
    /\ UNCHANGED <<provVars, impVars, hostVars>>

\* line 85, 95-96
install_module_85 ==
    /\ pc = "install_module_85"
    /\ pc' = IF NeedsCopy(fs) THEN "install_module_87" ELSE "install_module_100"
    /\ UNCHANGED <<fn, ops, result, modVars, provVars, impVars, hostVars>>

\* line 87-88: module_dir.mkdir()
install_module_87 ==
    /\ pc = "install_module_87"
    /\ IF ~Exists(fs)
       THEN /\ fs' = [fs EXCEPT !.moduleDir = "other", !.dest = NoFile]
            /\ ops' = Append(ops, "mkdir")
       ELSE UNCHANGED <<fs, ops>>
    /\ pc' = "install_module_91"
    /\ UNCHANGED <<fn, result, override, module_dir, returned, goodPaths,
                   verified, fsBefore>>
    /\ UNCHANGED <<provVars, impVars, hostVars>>

\* line 90-91: shutil.copy copies the data and the permission bits
install_module_91 ==
    /\ pc = "install_module_91"
    /\ fs' = [fs EXCEPT !.dest = fs.src]
    /\ ops' = Append(ops, "copy")
    /\ pc' = "install_module_92"
    /\ UNCHANGED <<fn, result, override, module_dir, returned, goodPaths,
                   verified, fsBefore>>
    /\ UNCHANGED <<provVars, impVars, hostVars>>

\* line 92: destfile.chmod(0o755)
install_module_92 ==
    /\ pc = "install_module_92"
    /\ fs' = [fs EXCEPT !.dest.mode = ModeExec]
    /\ ops' = Append(ops, "chmod")
    /\ pc' = "install_module_100"
    /\ UNCHANGED <<fn, result, override, module_dir, returned, goodPaths,
                   verified, fsBefore>>
    /\ UNCHANGED <<provVars, impVars, hostVars>>

\* line 100: return module_dir
install_module_100 ==
    /\ pc = "install_module_100"
    /\ returned' = module_dir
    /\ result' = "ok"
    /\ pc' = "idle"
    /\ UNCHANGED <<fn, ops, fs, override, module_dir, goodPaths, verified,
                   fsBefore>>
    /\ UNCHANGED <<provVars, impVars, hostVars>>

\* line 107-112: CREATE FUNCTION ... AS '<path>/nominatim.so'; DROP FUNCTION.
\* The statement fails when the engine cannot load the module.
check_module_dir_path(path) ==
    /\ pc = "idle"
    /\ fn' = "check_module_dir_path"
    /\ ops' = <<"create_function">>
    /\ IF Loadable(path)
       THEN verified' = verified \cup {path} /\ result' = "ok"
       ELSE verified' = verified /\ result' = "DatabaseError"
    /\ pc' = "idle"
    /\ UNCHANGED <<fs, override, module_dir, returned, goodPaths, fsBefore>>
    /\ UNCHANGED <<provVars, impVars, hostVars>>


(***************************************************************************)
(* import_osm_data                                                         *)
(***************************************************************************)
MaxThreads == 2
MaxCache == 2
MaxRows == 2

NoDataImported == "No data imported by osm2pgsql."
ImporterFailed == "ImporterFailed"

FlatnodePath == "/data/flatnode.store"

\* the options dict as a caller builds it; the cache size is in MB
OptionsInputs ==
    [import_file : {None, "old.osm.pbf"},
     append : BOOLEAN,
     threads : 1..MaxThreads,
     flatnode_file : {None, "", FlatnodePath},
     osm2pgsql_cache : {NatToBits(n) : n \in 0..MaxCache},
     dsn : {"dbname=nominatim"}]

NoOptions == [import_file |-> None, append |-> FALSE, threads |-> 0,
              flatnode_file |-> None, osm2pgsql_cache |-> << >>, dsn |-> None]

WantsEstimateIgnoringFlatnode(o) == o.osm2pgsql_cache = << >>

\* line 137: not options['flatnode_file'] and options['osm2pgsql_cache'] == 0
WantsEstimate(o) == ~Truthy(o.flatnode_file) /\ o.osm2pgsql_cache = << >>

RowCountOffByOne(rows) == IF rows > 1 THEN 1 ELSE 0

\* cur.rowcount after 'SELECT * FROM place LIMIT 1'
RowCountLimit1(rows) == IF rows >= 1 THEN 1 ELSE 0

UnlinkWantedWithoutDrop(d, o) == Truthy(o.flatnode_file)

\* line 156-157: if drop: if options['flatnode_file']:
UnlinkWanted(d, o) == d /\ Truthy(o.flatnode_file)

ForceNothing(o, f) == [o EXCEPT !.import_file = f]

\* line 133-135
ForceOptions(o, f) == [o EXCEPT !.import_file = f, !.append = FALSE, !.threads = 1]

\* line 129-135; options is the caller's dict, changed in place
import_osm_data(f, d) ==
    /\ pc = "idle"
    /\ fn' = "import_osm_data"
    /\ osm_file' = f
    /\ drop' = d
    /\ callerOptions' = options
    /\ options' = ForceOptions(options, f)
    /\ handed' = NoOptions
    /\ ops' = << >>
    /\ result' = "none"
    /\ pc' = "import_osm_data_137"
    /\ UNCHANGED <<importerOk, importedRows, placeRows, tables, flatFiles>>
    /\ UNCHANGED <<provVars, modVars, hostVars>>

\* line 137-143
import_osm_data_137 ==
    /\ pc = "import_osm_data_137"
    /\ IF WantsEstimate(options)
       THEN /\ ops' = ops \o <<"virtual_memory", "stat">>
            /\ options' = [options EXCEPT !.osm2pgsql_cache =
                              CacheSize(mem.available, mem.cached, fsize)]
       ELSE UNCHANGED <<ops, options>>
    /\ pc' = "import_osm_data_145"
    /\ UNCHANGED <<fn, result, callerOptions, osm_file, drop, handed, importerOk,
                   importedRows, placeRows, tables, flatFiles>>
    /\ UNCHANGED <<provVars, modVars, hostVars>>

\* line 145: run_osm2pgsql(options) raises when osm2pgsql fails; on success
\* the tables (and the flatnode file, when one is configured) exist
import_osm_data_145 ==
    /\ pc = "import_osm_data_145"
    /\ handed' = options
    /\ ops' = Append(ops, "run_osm2pgsql")
    /\ IF importerOk
       THEN /\ placeRows' = importedRows
            /\ tables' = tables \cup {"planet_osm_nodes"}
            /\ flatFiles' = IF Truthy(options.flatnode_file)
                            THEN flatFiles \cup {options.flatnode_file}
                            ELSE flatFiles
            /\ result' = result
            /\ pc' = "import_osm_data_147"
       ELSE /\ UNCHANGED <<placeRows, tables, flatFiles>>
            /\ result' = ImporterFailed
            /\ pc' = "idle"
    /\ UNCHANGED <<fn, options, callerOptions, osm_file, drop, importerOk,
                   importedRows>>
    /\ UNCHANGED <<provVars, modVars, hostVars>>

\* line 147-151
import_osm_data_147 ==
    /\ pc = "import_osm_data_147"
    /\ ops' = ops \o <<"connect", "select_place">>
    /\ IF RowCountLimit1(placeRows) = 0
       THEN result' = NoDataImported /\ pc' = "idle"
       ELSE result' = result /\ pc' = "import_osm_data_153"
    /\ UNCHANGED <<fn, impVars, provVars, modVars, hostVars>>

\* line 153-154
import_osm_data_153 ==
    /\ pc = "import_osm_data_153"
    /\ IF drop
       THEN /\ tables' = tables \ {"planet_osm_nodes"}
            /\ ops' = Append(ops, "drop_table")
       ELSE UNCHANGED <<tables, ops>>
    /\ pc' = "import_osm_data_156"
    /\ UNCHANGED <<fn, result, options, callerOptions, osm_file, drop, handed,
                   importerOk, importedRows, placeRows, flatFiles>>
    /\ UNCHANGED <<provVars, modVars, hostVars>>

\* line 156-158
import_osm_data_156 ==
    /\ pc = "import_osm_data_156"
    /\ IF UnlinkWanted(drop, options)
       THEN /\ flatFiles' = flatFiles \ {options.flatnode_file}
            /\ ops' = Append(ops, "unlink")
       ELSE UNCHANGED <<flatFiles, ops>>
    /\ result' = "ok"
    /\ pc' = "idle"
    /\ UNCHANGED <<fn, options, callerOptions, osm_file, drop, handed,
                   importerOk, importedRows, placeRows, tables>>
    /\ UNCHANGED <<provVars, modVars, hostVars>>

(***************************************************************************)
(* Initial states and specifications                                       *)
(***************************************************************************)
MaxMant == 3
MaxExp == 56

\* m * 2^e - d
Bytes(m, e, d) == IF d = 1 THEN Dec(Shl(NatToBits(m), e)) ELSE Shl(NatToBits(m), e)

Bytes8e9 == Shl(NatToBits(7812500), 10)
Bytes1e9 == Shl(NatToBits(1953125), 9)

ByteInputs ==
    {Bytes(m, e, d) : m \in 1..MaxMant,
                      e \in {0, 10, 20, 30, 40, 50, 51, 52, 54, MaxExp},
                      d \in {0, 1}}
    \cup {Bytes8e9, Bytes1e9}

CachedInputs == {<< >>, Bytes(1, 0, 0), Bytes(1, 20, 0)}

CallIdle ==
    /\ pc = "idle"
    /\ fn = "none"
    /\ ops = << >>
    /\ result = "none"

ProvIdle ==
    /\ dbExists = FALSE
    /\ extensions = {}
    /\ extPending = {}
    /\ createdbOk = TRUE
    /\ serverVersion = <<MaxMajor, 0>>
    /\ postgisVersion = <<MaxMajor, 0>>
    /\ pgRequired = <<9, 0>>
    /\ postgisRequired = <<9, 0>>
    /\ roles = {}
    /\ rouser = None
    /\ returncode = 0
    /\ serverBefore = [db |-> FALSE, ext |-> {}]

ModIdle ==
    /\ fs = [moduleDir |-> "absent", src |-> [content |-> "built", mode |-> ModeExec],
             dest |-> NoFile]
    /\ override = None
    /\ module_dir = None
    /\ returned = None
    /\ goodPaths = {}
    /\ verified = {}
    /\ fsBefore = fs

ImpIdle ==
    /\ options = NoOptions
    /\ callerOptions = NoOptions
    /\ osm_file = None
    /\ drop = FALSE
    /\ handed = NoOptions
    /\ importerOk = TRUE
    /\ importedRows = 0
    /\ placeRows = 0
    /\ tables = {}
    /\ flatFiles = {}

HostIdle ==
    /\ mem = [available |-> Bytes8e9, cached |-> << >>]
    /\ fsize = Bytes1e9

\* a server that may already hold the database, with or without extensions
InitProvision ==
    /\ CallIdle
    /\ dbExists \in BOOLEAN
    /\ extensions \in (IF dbExists THEN {{}, {"hstore", "postgis"}} ELSE {{}})
    /\ extPending = {}
    /\ createdbOk \in BOOLEAN
    /\ serverVersion \in Versions
    /\ postgisVersion \in Versions
    /\ pgRequired \in Versions
    /\ postgisRequired \in Versions
    /\ roles \in SUBSET RoleNames
    /\ rouser = None
    /\ returncode = 0
    /\ serverBefore = Server
    /\ ModIdle /\ ImpIdle /\ HostIdle

NextProvision ==
    \/ \E r \in {None, ""} \cup RoleNames : create_db(r)
    \/ create_db_35
    \/ create_db_44
    \/ setup_extensions
    \/ setup_extensions_60
    \/ setup_extensions_61
    \/ setup_extensions_62
    \/ setup_extensions_64

SpecProvision == InitProvision /\ [][NextProvision]_vars

\* a filesystem with the built module in src_dir
InitModule ==
    /\ CallIdle
    /\ \E md \in {"absent", "same", "other"}, sm \in FileModes :
          \E df \in (IF md = "other"
                     THEN {NoFile} \cup {[content |-> "stale", mode |-> m] : m \in FileModes}
                     ELSE {NoFile}) :
             fs = [moduleDir |-> md, src |-> [content |-> "built", mode |-> sm],
                   dest |-> df]
    /\ override = None
    /\ module_dir = None
    /\ returned = None
    /\ goodPaths \in SUBSET {ProjectModule, CustomPath}
    /\ verified = {}
    /\ fsBefore = fs
    /\ ProvIdle /\ ImpIdle /\ HostIdle

NextModule ==
    \/ \E od \in {None, "", CustomPath} : install_module(od)
    \/ install_module_82
    \/ install_module_85
    \/ install_module_87
    \/ install_module_91
    \/ install_module_92
    \/ install_module_100
    \/ \E path \in {ProjectModule, CustomPath} : check_module_dir_path(path)

SpecModule == InitModule /\ [][NextModule]_vars

InitImport ==
    /\ CallIdle
    /\ options \in OptionsInputs
    /\ callerOptions = options
    /\ osm_file = None
    /\ drop = FALSE
    /\ handed = NoOptions
    /\ importerOk \in BOOLEAN
    /\ importedRows \in 0..MaxRows
    /\ placeRows = 0
    /\ tables = {}
    /\ flatFiles = {}
    /\ mem = [available |-> Bytes8e9, cached |-> << >>]
    /\ fsize \in {Bytes(1, 10, 0), Bytes1e9}
    /\ ProvIdle /\ ModIdle

NextImport ==
    \/ \E f \in {"planet.osm.pbf"}, d \in BOOLEAN : import_osm_data(f, d)
    \/ import_osm_data_137
    \/ import_osm_data_145
    \/ import_osm_data_147
    \/ import_osm_data_153
    \/ import_osm_data_156

SpecImport == InitImport /\ [][NextImport]_vars

\* the cache estimate over wide memory and file sizes: the call up to line 143
InitCache ==
    /\ CallIdle
    /\ options = [import_file |-> None, append |-> FALSE, threads |-> 1,
                  flatnode_file |-> None, osm2pgsql_cache |-> << >>,
                  dsn |-> "dbname=nominatim"]
    /\ callerOptions = options
    /\ osm_file = None
    /\ drop = FALSE
    /\ handed = NoOptions
    /\ importerOk = TRUE
    /\ importedRows = 0
    /\ placeRows = 0
    /\ tables = {}
    /\ flatFiles = {}
    /\ mem \in [available : ByteInputs, cached : CachedInputs]
    /\ fsize \in ByteInputs
    /\ ProvIdle /\ ModIdle

NextCache ==
    \/ import_osm_data("planet.osm.pbf", FALSE)
    \/ import_osm_data_137

SpecCache == InitCache /\ [][NextCache]_vars


(***************************************************************************)
(* Properties                                                              *)
(***************************************************************************)
Range(q) == {q[i] : i \in 1..Len(q)}

\* lexicographic order on (major, minor), as the specification states it
LexLess(a, r) == a[1] < r[1] \/ (a[1] = r[1] /\ a[2] < r[2])

CreateDbDone == fn = "create_db" /\ pc = "idle"
SetupExtensionsDone == fn = "setup_extensions" /\ pc = "idle"

\* C1: in create_db and in setup_extensions the "too old" error is raised
\* exactly when the actual (major, minor) is lexicographically below the
\* required one; (9,5) against (10,0) fails, (10,0) against (9,5) passes.
C1_VersionGate ==
    /\ (CreateDbDone /\ returncode = 0) =>
          /\ (result = PgTooOld) <=> LexLess(serverVersion, pgRequired)
          /\ (serverVersion = <<9, 5>> /\ pgRequired = <<10, 0>>) => result = PgTooOld
          /\ (serverVersion = <<10, 0>> /\ pgRequired = <<9, 5>>) => result # PgTooOld
    /\ SetupExtensionsDone =>
          /\ (result = PostgisTooOld) <=> LexLess(postgisVersion, postgisRequired)
          /\ (postgisVersion = <<9, 5>> /\ postgisRequired = <<10, 0>>)
                => result = PostgisTooOld
          /\ (postgisVersion = <<10, 0>> /\ postgisRequired = <<9, 5>>)
                => result = "ok"

C1_Witness ==
    /\ SetupExtensionsDone
    /\ postgisVersion = <<9, 5>> /\ postgisRequired = <<10, 0>>
    /\ result = PostgisTooOld
    /\ serverVersion = <<10, 0>> /\ pgRequired = <<9, 5>>

\* C2: create_db's outcome is decided by three gates in order: a non-zero
\* exit of createdb gives CreationFailed with no connection, version read or
\* role query; else a version below the minimum gives VersionTooOld without a
\* role query; else a supplied rouser with no row of that name gives
\* MissingRole; else success.  Without rouser the catalog is never queried.
C2_CreateDbGates ==
    CreateDbDone =>
        /\ returncode # 0 =>
              result = CreationFailed /\ ops = <<"createdb">>
        /\ (returncode = 0 /\ LexLess(serverVersion, pgRequired)) =>
              /\ result = PgTooOld
              /\ ops = <<"createdb", "connect", "server_version_tuple">>
        /\ (returncode = 0 /\ ~LexLess(serverVersion, pgRequired) /\ rouser # None) =>
              /\ result = IF rouser \in roles THEN "ok" ELSE MissingRole
              /\ ops = <<"createdb", "connect", "server_version_tuple", "pg_user">>
        /\ (returncode = 0 /\ ~LexLess(serverVersion, pgRequired) /\ rouser = None) =>
              /\ result = "ok"
              /\ ops = <<"createdb", "connect", "server_version_tuple">>

C2_Witness ==
    /\ CreateDbDone
    /\ result = MissingRole
    /\ rouser = "nominatim"
    /\ roles = {"www-data"}
    /\ ops = <<"createdb", "connect", "server_version_tuple", "pg_user">>

\* the version check of the running/last call has passed
VersionCheckPassed ==
    \/ pc = "create_db_44"
    \/ CreateDbDone /\ result \in {"ok", MissingRole}
    \/ SetupExtensionsDone /\ result = "ok"

\* C3 as claimed: no state-changing operation on the server happens before
\* the version check has passed, and a VersionTooOld failure leaves the server
\* as it was before the call.
C3_NoChangeBeforeVersionCheck ==
    /\ (fn \in {"create_db", "setup_extensions"} /\ Server # serverBefore)
          => VersionCheckPassed
    /\ result \in {PgTooOld, PostgisTooOld} => Server = serverBefore

\* C3 as amended: each version is read only after the creation it follows
\* (the database; both extensions, committed), the check is the next thing
\* done, and nothing follows a failed check; a VersionTooOld failure leaves
\* the created database, and the committed extensions, on the server.
C3_CheckFollowsCreation ==
    /\ (fn = "create_db" /\ "server_version_tuple" \in Range(ops)) =>
          dbExists /\ ~serverBefore.db
    /\ (fn = "create_db" /\ result = PgTooOld) =>
          /\ pc = "idle"
          /\ Server # serverBefore
          /\ ops = <<"createdb", "connect", "server_version_tuple">>
    /\ (fn = "setup_extensions" /\ "postgis_version_tuple" \in Range(ops)) =>
          {"hstore", "postgis"} \subseteq extensions /\ extPending = {}
    /\ (fn = "setup_extensions" /\ result = PostgisTooOld) =>
          /\ pc = "idle"
          /\ ops = <<"create_extension_hstore", "create_extension_postgis",
                     "commit", "postgis_version_tuple">>

C3_Witness ==
    /\ SetupExtensionsDone
    /\ result = PostgisTooOld
    /\ serverBefore.ext = {}
    /\ extensions = {"hstore", "postgis"}

InstallModuleDone == fn = "install_module" /\ pc = "idle"

\* C4: install_module copies the module exactly when no override is given and
\* project_dir/module is absent (it is created first) or is not the same
\* location as src_dir; then the destination file is written, made executable
\* and project_dir/module returned.  With an override the override is
\* returned and the filesystem unchanged; when project_dir/module is src_dir
\* nothing is created, copied or chmod-ed.
C4_InstallModule ==
    InstallModuleDone =>
        LET given == Truthy(override)
            before == fsBefore.moduleDir
            copies == ~given /\ before \in {"absent", "other"}
        IN  /\ ("copy" \in Range(ops)) <=> copies
            /\ copies =>
                  /\ ops = (IF before = "absent" THEN <<"mkdir">> ELSE << >>)
                           \o <<"copy", "chmod">>
                  /\ fs.moduleDir = "other"
                  /\ fs.dest = [content |-> fsBefore.src.content, mode |-> ModeExec]
                  /\ fs.src = fsBefore.src
                  /\ returned = ProjectModule
            /\ given => returned = override /\ fs = fsBefore /\ ops = << >>
            /\ (~given /\ before = "same") =>
                  fs = fsBefore /\ ops = << >> /\ returned = ProjectModule

C4_Witness ==
    /\ InstallModuleDone
    /\ override = ""
    /\ fsBefore.moduleDir = "other"
    /\ fsBefore.dest.content = "stale"
    /\ fsBefore.src.mode # ModeExec
    /\ fs.dest = [content |-> "built", mode |-> ModeExec]

\* C5: once install_module has returned a path, that path has been verified
\* loadable by check_module_dir_path (or the pipeline has failed), also for an
\* override path.
C5_ReturnedPathVerified ==
    (InstallModuleDone /\ result = "ok") => returned \in verified

ImportCalled == fn = "import_osm_data"
ImportDone == ImportCalled /\ pc = "idle"

\* the caller supplied neither a flatnode file nor a cache size
CallerWantsEstimate ==
    ~Truthy(callerOptions.flatnode_file) /\ callerOptions.osm2pgsql_cache = << >>

\* C6: the estimator runs exactly when the options have no flatnode file and
\* cache size 0, and then the importer gets a cache size > 0; otherwise no
\* memory statistics or file size are read and the cache size stays as given.
C6_EstimatorInvocation ==
    (ImportCalled /\ pc # "import_osm_data_137") =>
        /\ ("virtual_memory" \in Range(ops)) <=> CallerWantsEstimate
        /\ ("stat" \in Range(ops)) <=> CallerWantsEstimate
        /\ CallerWantsEstimate => Less(<< >>, options.osm2pgsql_cache)
        /\ ~CallerWantsEstimate =>
              options.osm2pgsql_cache = callerOptions.osm2pgsql_cache
        /\ "run_osm2pgsql" \in Range(ops) =>
              handed.osm2pgsql_cache = options.osm2pgsql_cache

C6_Witness ==
    /\ ImportDone
    /\ CallerWantsEstimate
    /\ callerOptions.flatnode_file = ""
    /\ handed.osm2pgsql_cache = NatToBits(1908)

\* floor(min((available + cached) * 3/4, fileSize * 2) / 1048576) + 1
ExactMB(a, c, f) ==
    LET s == Add(a, c)
    IN  Add(Shr(MinBits(Add(s, Shl(s, 1)), Shl(f, 3)), 22), <<1>>)

EstimateMade == pc = "import_osm_data_145" /\ "stat" \in Range(ops)

\* the estimate and both of the claim's upper bounds
EstimateIsExact ==
    LET s == Add(mem.available, mem.cached)
        got == options.osm2pgsql_cache
    IN  /\ got = ExactMB(mem.available, mem.cached, fsize)
        /\ Leq(<<1>>, got)
        /\ Leq(got, Add(Shr(fsize, 19), <<1>>))
        /\ Leq(got, Add(Shr(Add(s, Shl(s, 1)), 22), <<1>>))
        /\ (mem.available = Bytes8e9 /\ mem.cached = << >> /\ fsize = Bytes1e9)
              => got = NatToBits(1908)
        /\ (fsize = Bytes(1, 10, 0) /\ Leq(Bytes(1, 30, 0), mem.available))
              => got = <<1>>

\* C7 as claimed: for all non-negative byte counts the estimate is
\* floor(min((available + cached) * 3/4, fileSize * 2) / 1048576) + 1.
C7_ExactForAllSizes == EstimateMade => EstimateIsExact

\* C7 as amended: the same for available + cached < 2^51 and fileSize < 2^52,
\* where every intermediate value of the float computation is exact.
C7_ExactBelowFloatPrecision ==
    (EstimateMade /\ Len(Add(mem.available, mem.cached)) <= 51 /\ Len(fsize) <= 52)
        => EstimateIsExact

C7_Witness ==
    /\ EstimateMade
    /\ mem.available = Bytes8e9 /\ mem.cached = << >> /\ fsize = Bytes1e9
    /\ options.osm2pgsql_cache = NatToBits(1908)

\* C8: when the importer succeeds and place has no rows, import_osm_data
\* fails with NoDataImported and never returns success; with at least one row
\* NoDataImported is not raised.
C8_NoDataImported ==
    (ImportDone /\ importerOk) =>
        /\ placeRows = 0 => result = NoDataImported
        /\ placeRows >= 1 => result = "ok"

C8_Witness ==
    /\ ImportDone /\ importerOk
    /\ placeRows = 0
    /\ result = NoDataImported
    /\ ops[Len(ops)] = "select_place"

EstimateOps == IF CallerWantsEstimate THEN <<"virtual_memory", "stat">> ELSE << >>

\* C9: the importer runs once per call; when it fails nothing follows; when
\* place is empty no table is dropped and no file deleted; without drop
\* neither happens; with drop, after a successful import, planet_osm_nodes is
\* dropped and then the flatnode file deleted iff one is configured.
C9_CleanupOnlyOnSuccess ==
    /\ ImportCalled =>
          Cardinality({i \in 1..Len(ops) : ops[i] = "run_osm2pgsql"}) <= 1
    /\ ImportDone =>
          /\ ~importerOk =>
                /\ result = ImporterFailed
                /\ ops = EstimateOps \o <<"run_osm2pgsql">>
          /\ (importerOk /\ placeRows = 0) =>
                ops = EstimateOps \o <<"run_osm2pgsql", "connect", "select_place">>
          /\ (importerOk /\ placeRows > 0 /\ ~drop) =>
                /\ result = "ok"
                /\ ops = EstimateOps \o <<"run_osm2pgsql", "connect", "select_place">>
          /\ (importerOk /\ placeRows > 0 /\ drop) =>
                /\ result = "ok"
                /\ ops = EstimateOps
                         \o <<"run_osm2pgsql", "connect", "select_place", "drop_table">>
                         \o (IF Truthy(options.flatnode_file)
                             THEN <<"unlink">> ELSE << >>)
                /\ "planet_osm_nodes" \notin tables
                /\ options.flatnode_file \notin flatFiles

C9_Witness ==
    /\ ImportDone
    /\ drop
    /\ result = "ok"
    /\ options.flatnode_file = FlatnodePath
    /\ ops = <<"run_osm2pgsql", "connect", "select_place", "drop_table", "unlink">>

\* C10: when the importer is invoked the record has import_file = the input
\* file, append = false and threads = 1 whatever the caller supplied; dsn and
\* flatnode_file are never modified; the forced values stay in the caller's
\* record also when the importer fails.
C10_ForcedOptions ==
    ImportCalled =>
        /\ "run_osm2pgsql" \in Range(ops) =>
              /\ handed.import_file = osm_file
              /\ handed.append = FALSE
              /\ handed.threads = 1
        /\ options.dsn = callerOptions.dsn
        /\ options.flatnode_file = callerOptions.flatnode_file
        /\ options.import_file = osm_file
        /\ options.append = FALSE
        /\ options.threads = 1

C10_Witness ==
    /\ ImportDone
    /\ result = ImporterFailed
    /\ callerOptions.append = TRUE
    /\ callerOptions.threads = 2
    /\ callerOptions.import_file = "old.osm.pbf"
    /\ options.append = FALSE /\ options.threads = 1
    /\ options.import_file = "planet.osm.pbf"

====
